---- MODULE Spec2Model ----
(***************************************************************************)
(* Model of src/renderer/BaseRenderLayer.ts (xterm.js canvas renderer):    *)
(* the cell geometry computed by resize, the char atlas reference and its  *)
(* asynchronous acquisition, and the canvas operations issued by drawChar, *)
(* _drawUncachedChar and fillCharTrueColor.                                *)
(*                                                                         *)
(* Non-integer quantities are fixed point: font metrics, devicePixelRatio  *)
(* and lineHeight are held in tenths (1.5 is 15), so that Math.ceil,       *)
(* Math.floor and Math.round are exact integer computations.               *)
(***************************************************************************)
EXTENDS Integers, Sequences, FiniteSets

VARIABLES
    termFont,          \* terminal.options.fontSize and terminal.charMeasure (w, h in tenths)
    devicePixelRatio,  \* window.devicePixelRatio, in tenths
    lineHeight,        \* terminal.options.lineHeight, in tenths
    colors,            \* this.colors (constructor parameter)
    scaledCharWidth,   \* this.scaledCharWidth  (0: not assigned yet)
    scaledCharHeight,  \* this.scaledCharHeight (0: not assigned yet)
    scaledLineHeight,  \* this.scaledLineHeight
    scaledLineDrawY,   \* this.scaledLineDrawY
    canvas,            \* this._canvas: width, height, style.width, style.height
    charAtlas,         \* this._charAtlas
    pending,           \* promises returned by acquireCharAtlas, not yet settled
    reqCount,          \* number of acquireCharAtlas calls made so far
    lastReq,           \* arguments of the most recent acquireCharAtlas call
    resolved,          \* ids of the promises whose then-callback has run, in order
    raced,             \* pairs <<a, b>>: promise a was unsettled when b was requested
    lastCall,          \* the most recent call on the layer and its arguments
    ctxOps             \* canvas context operations issued by the most recent call

vars == <<termFont, devicePixelRatio, lineHeight, colors, scaledCharWidth,
          scaledCharHeight, scaledLineHeight, scaledLineDrawY, canvas, charAtlas,
          pending, reqCount, lastReq, resolved, raced, lastCall, ctxOps>>

termVars == <<termFont, devicePixelRatio, lineHeight>>
geomVars == <<scaledCharWidth, scaledCharHeight, scaledLineHeight, scaledLineDrawY, canvas>>
atlasVars == <<charAtlas, pending, reqCount, lastReq, resolved, raced>>

----------------------------------------------------------------------------
(* Bounds of the model *)

\* cap on acquireCharAtlas calls in the atlas life-cycle specification
MaxRequests == 2
\* cap on acquireCharAtlas calls in the drawing specification
MaxDrawRequests == 1
\* cap on acquireCharAtlas calls in the geometry specification
MaxGeomRequests == 1

----------------------------------------------------------------------------
(* Program constants *)

\* line 12
INVERTED_DEFAULT_COLOR == -1

\* imported from ./CharAtlas (line 8)
CHAR_ATLAS_CELL_SPACING == 1

----------------------------------------------------------------------------
(* Input domains *)

ColorSets == {"dark", "light"}

Fonts == { [size |-> 12, w |-> 72, h |-> 150],
           [size |-> 15, w |-> 90, h |-> 200] }

\* r in {1, 1.1, 1.5, 2, 3}
PixelRatios == {10, 11, 15, 20, 30}

\* terminal.options.lineHeight; the terminal keeps it >= 1
LineHeights == {10, 12, 15}

CanvasSizes == { <<725, 355>> }

\* character codes: 'A', the last code of the atlas, the first code outside it
Codes == {65, 255, 256}

\* foreground indexes: inverted default, basic 0..15, extended 16..255, default >= 256
Fgs == {-1, 0, 5, 15, 16, 200, 255, 256, 300}

Widths == {1, 2}

Cells == { <<3, 2>> }

----------------------------------------------------------------------------
(* Arithmetic helpers *)

\* Math.ceil(n / d), d > 0
Ceil(n, d) == -((-n) \div d)

\* Math.floor(n / d), d > 0
Floor(n, d) == n \div d

\* Math.round(n / d), d > 0: halves round towards +Infinity
Round(n, d) == (2 * n + d) \div (2 * d)

----------------------------------------------------------------------------
(* The char atlas *)

\* _charAtlas === null / undefined
NoAtlas == [id |-> 0, colors |-> "none", w |-> 0, h |-> 0]

\* the arguments acquireCharAtlas is called with (line 56)
AcquireArgs(colorSet, layerColors, w, h) ==
    [colors |-> layerColors, w |-> w, h |-> h]

\* the atlas (canvas or bitmap) that request number id yields
AtlasOf(id, args) == [id |-> id, colors |-> args.colors, w |-> args.w, h |-> args.h]

\* the mutant of Invalidated: the previous atlas is kept while the request runs
KeepPrevious(prev) == prev

\* line 55: this._charAtlas = null
Invalidated(prev) == NoAtlas

\* _refreshCharAtlas(terminal, colorSet), with the cell size w, h the layer
\* holds when it runs; sync tells whether acquireCharAtlas returns an
\* HTMLCanvasElement (TRUE) or a Promise<ImageBitmap> (FALSE)
RefreshCharAtlas(colorSet, w, h, sync) ==
    LET args == AcquireArgs(colorSet, colors, w, h)
        id == reqCount + 1
        result == AtlasOf(id, args)
    IN  /\ reqCount' = id
        /\ lastReq' = args
        /\ resolved' = resolved
        /\ IF sync
           THEN /\ charAtlas' = result
                /\ pending' = pending
                /\ raced' = raced
           ELSE /\ charAtlas' = Invalidated(charAtlas)
                /\ pending' = pending \cup {result}
                /\ raced' = raced \cup { <<p.id, id>> : p \in pending }

\* onThemeChanged(terminal, colorSet)
OnThemeChanged(colorSet, sync) ==
    /\ RefreshCharAtlas(colorSet, scaledCharWidth, scaledCharHeight, sync)
    /\ lastCall' = [op |-> "onThemeChanged", colorSet |-> colorSet]
    /\ ctxOps' = <<>>
    /\ UNCHANGED <<termVars, colors, geomVars>>

\* the callback of result.then (line 60) runs for promise p
AcquireResolve(p) ==
    /\ p \in pending
    /\ charAtlas' = p
    /\ pending' = pending \ {p}
    /\ resolved' = Append(resolved, p.id)
    /\ lastCall' = [op |-> "resolve", id |-> p.id]
    /\ ctxOps' = <<>>
    /\ UNCHANGED <<termVars, colors, geomVars, reqCount, lastReq, raced>>

\* promise p is rejected (atlas construction failed): no callback is registered
AcquireReject(p) ==
    /\ p \in pending
    /\ pending' = pending \ {p}
    /\ lastCall' = [op |-> "reject", id |-> p.id]
    /\ ctxOps' = <<>>
    /\ UNCHANGED <<termVars, colors, geomVars, charAtlas, reqCount, lastReq, resolved, raced>>

----------------------------------------------------------------------------
(* Cell geometry *)

\* the mutant of ScaledCharSize: rounds instead of ceiling
ScaledCharSizeRounded(metric, ratio) == Round(metric * ratio, 100)

\* lines 68-69: Math.ceil(charMeasure.width * devicePixelRatio); metric and
\* ratio are in tenths, so the product is in hundredths
ScaledCharSize(metric, ratio) == Ceil(metric * ratio, 100)

\* line 75: Math.floor(scaledCharHeight * lineHeight)
ScaledLineHeightOf(charHeight, lh) == Floor(charHeight * lh, 10)

\* line 79
ScaledLineDrawYOf(lineH, charHeight, lh) ==
    IF lh = 10 THEN 0 ELSE Round(lineH - charHeight, 2)

\* lines 88-91
CanvasOf(canvasWidth, canvasHeight, ratio) ==
    [width |-> Round(canvasWidth * ratio, 10),
     height |-> Round(canvasHeight * ratio, 10),
     styleWidth |-> canvasWidth,
     styleHeight |-> canvasHeight]

\* the mutant of ShouldRefresh: every resize refreshes the atlas
AlwaysRefresh(charSizeChanged) == TRUE

\* line 93: if (charSizeChanged)
ShouldRefresh(charSizeChanged) == charSizeChanged

\* resize(terminal, canvasWidth, canvasHeight, charSizeChanged)
Resize(canvasWidth, canvasHeight, charSizeChanged, sync) ==
    LET w == ScaledCharSize(termFont.w, devicePixelRatio)
        h == ScaledCharSize(termFont.h, devicePixelRatio)
        lineH == ScaledLineHeightOf(h, lineHeight)
        call == [op |-> "resize", canvasWidth |-> canvasWidth,
                 canvasHeight |-> canvasHeight, charSizeChanged |-> charSizeChanged,
                 n |-> 1]
        again == /\ lastCall.op = "resize"
                 /\ [lastCall EXCEPT !.n = 1] = call
    IN  /\ scaledCharWidth' = w
        /\ scaledCharHeight' = h
        /\ scaledLineHeight' = lineH
        /\ scaledLineDrawY' = ScaledLineDrawYOf(lineH, h, lineHeight)
        /\ canvas' = CanvasOf(canvasWidth, canvasHeight, devicePixelRatio)
        /\ IF ShouldRefresh(charSizeChanged)
           THEN RefreshCharAtlas(colors, w, h, sync)
           ELSE UNCHANGED atlasVars
        /\ lastCall' = [call EXCEPT !.n = IF again THEN 2 ELSE 1]
        /\ ctxOps' = <<>>
        /\ UNCHANGED <<termVars, colors>>

----------------------------------------------------------------------------
(* The terminal and the window, read by resize *)

SetFont(f) ==
    /\ f # termFont
    /\ termFont' = f
    /\ lastCall' = [op |-> "terminal"]
    /\ ctxOps' = <<>>
    /\ UNCHANGED <<devicePixelRatio, lineHeight, colors, geomVars, atlasVars>>

SetDevicePixelRatio(r) ==
    /\ r # devicePixelRatio
    /\ devicePixelRatio' = r
    /\ lastCall' = [op |-> "terminal"]
    /\ ctxOps' = <<>>
    /\ UNCHANGED <<termFont, lineHeight, colors, geomVars, atlasVars>>

SetLineHeight(lh) ==
    /\ lh # lineHeight
    /\ lineHeight' = lh
    /\ lastCall' = [op |-> "terminal"]
    /\ ctxOps' = <<>>
    /\ UNCHANGED <<termFont, devicePixelRatio, colors, geomVars, atlasVars>>

----------------------------------------------------------------------------
(* Canvas operations.  Drawing is modelled from the first resize on: before *)
(* it the cell geometry is undefined and every coordinate is NaN.           *)

ClearRectOp(x, y, w, h) == [op |-> "clearRect", x |-> x, y |-> y, w |-> w, h |-> h]
RectOp(x, y, w, h) == [op |-> "rect", x |-> x, y |-> y, w |-> w, h |-> h]
FillTextOp(text, x, y) == [op |-> "fillText", text |-> text, x |-> x, y |-> y]
SetOp(prop, value) == [op |-> "set", prop |-> prop, value |-> value]
PlainOp(name) == [op |-> name]
DrawImageOp(image, sx, sy, sw, sh, dx, dy, dw, dh) ==
    [op |-> "drawImage", image |-> image, sx |-> sx, sy |-> sy, sw |-> sw, sh |-> sh,
     dx |-> dx, dy |-> dy, dw |-> dw, dh |-> dh]

\* `${terminal.options.fontSize * window.devicePixelRatio}px ...`, in tenths of a px
FontOf == termFont.size * devicePixelRatio

\* clearCells(x, y, width, height), lines 168-170
ClearCells(x, y, width, height) ==
    ClearRectOp(x * scaledCharWidth, y * scaledLineHeight,
                width * scaledCharWidth, height * scaledLineHeight)

\* the mutant of WideClear: the wide character's own cell is cleared
WideClearOwnCell(width, x, y) ==
    IF width = 2 THEN <<ClearCells(x, y, 1, 1)>> ELSE <<>>

\* lines 210-212: clear the cell next to a wide character
WideClear(width, x, y) ==
    IF width = 2 THEN <<ClearCells(x + 1, y, 1, 1)>> ELSE <<>>

\* a faulty variant of ColorIndex: bold is ignored for the default color
ColorIndexNoBold(fg, bold) == IF fg < 256 THEN fg + 2 ELSE 0

\* lines 214-222
ColorIndex(fg, bold) ==
    IF fg < 256 THEN fg + 2 ELSE IF bold THEN 1 ELSE 0

\* line 224
IsBasicColor(colorIndex, fg) == colorIndex > 1 /\ fg < 16

\* line 225
IsDefaultColor(fg) == fg >= 256

\* line 226: the condition of the atlas branch
UsesAtlas(code, fg, bold) ==
    code < 256 /\ (IsBasicColor(ColorIndex(fg, bold), fg) \/ IsDefaultColor(fg))

\* lines 257-264
FillStyleOf(fg) ==
    IF fg = INVERTED_DEFAULT_COLOR
    THEN [of |-> colors, name |-> "background", index |-> 0]
    ELSE IF fg < 256
         THEN [of |-> colors, name |-> "ansi", index |-> fg]
         ELSE [of |-> colors, name |-> "foreground", index |-> 0]

\* _drawUncachedChar(terminal, char, width, fg, x, y), lines 252-277
DrawUncachedChar(char, width, fg, x, y) ==
    << PlainOp("save"),
       SetOp("font", FontOf),
       SetOp("textBaseline", "top"),
       SetOp("fillStyle", FillStyleOf(fg)),
       PlainOp("beginPath"),
       RectOp(x * scaledCharWidth, y * scaledLineHeight + scaledLineDrawY,
              width * scaledCharWidth, scaledCharHeight),
       PlainOp("clip"),
       FillTextOp(char, x * scaledCharWidth, y * scaledLineHeight + scaledLineDrawY),
       PlainOp("restore") >>

\* lines 228-232: the blit from this._charAtlas
AtlasBlit(code, colorIndex, x, y) ==
    LET charAtlasCellWidth == scaledCharWidth + CHAR_ATLAS_CELL_SPACING
        charAtlasCellHeight == scaledCharHeight + CHAR_ATLAS_CELL_SPACING
    IN  << DrawImageOp(charAtlas,
                       code * charAtlasCellWidth, colorIndex * charAtlasCellHeight,
                       scaledCharWidth, scaledCharHeight,
                       x * scaledCharWidth, y * scaledLineHeight + scaledLineDrawY,
                       scaledCharWidth, scaledCharHeight) >>

\* drawChar(terminal, char, code, width, x, y, fg, bold); drawImage throws a
\* TypeError when its image argument is null or undefined
DrawChar(code, width, x, y, fg, bold) ==
    LET colorIndex == ColorIndex(fg, bold)
        atlasPath == UsesAtlas(code, fg, bold)
    IN  /\ scaledCharWidth > 0
        /\ ctxOps' = WideClear(width, x, y) \o
                     (IF atlasPath THEN AtlasBlit(code, colorIndex, x, y)
                      ELSE DrawUncachedChar(code, width, fg, x, y))
        /\ lastCall' = [op |-> "drawChar", code |-> code, width |-> width,
                        x |-> x, y |-> y, fg |-> fg, bold |-> bold,
                        colorIndex |-> colorIndex,
                        path |-> IF atlasPath THEN "atlas" ELSE "uncached",
                        thrown |-> atlasPath /\ charAtlas = NoAtlas]
        /\ UNCHANGED <<termVars, colors, geomVars, atlasVars>>

\* fillCharTrueColor(terminal, charData, x, y), lines 182-194
FillCharTrueColor(char, width, x, y) ==
    /\ scaledCharWidth > 0
    /\ ctxOps' = << SetOp("font", FontOf),
                    SetOp("textBaseline", "top"),
                    PlainOp("beginPath"),
                    RectOp(x * scaledCharWidth, y * scaledLineHeight + scaledLineDrawY,
                           width * scaledCharWidth, scaledCharHeight),
                    PlainOp("clip"),
                    FillTextOp(char, x * scaledCharWidth, y * scaledCharHeight) >>
    /\ lastCall' = [op |-> "fillCharTrueColor", code |-> char, width |-> width,
                    x |-> x, y |-> y]
    /\ UNCHANGED <<termVars, colors, geomVars, atlasVars>>

----------------------------------------------------------------------------
(* Specifications *)

InitOver(fonts, ratios, lineHeights) ==
    /\ termFont \in fonts
    /\ devicePixelRatio \in ratios
    /\ lineHeight \in lineHeights
    /\ colors \in ColorSets
    /\ scaledCharWidth = 0
    /\ scaledCharHeight = 0
    /\ scaledLineHeight = 0
    /\ scaledLineDrawY = 0
    /\ canvas = [width |-> 0, height |-> 0, styleWidth |-> 0, styleHeight |-> 0]
    /\ charAtlas = NoAtlas
    /\ pending = {}
    /\ reqCount = 0
    /\ lastReq = AcquireArgs("none", "none", 0, 0)
    /\ resolved = <<>>
    /\ raced = {}
    /\ lastCall = [op |-> "constructor"]
    /\ ctxOps = <<>>

\* Changes of the terminal and the window between calls on the layer
Terminal(fonts, ratios, lineHeights) ==
    \/ \E f \in fonts : SetFont(f)
    \/ \E r \in ratios : SetDevicePixelRatio(r)
    \/ \E lh \in lineHeights : SetLineHeight(lh)

\* The atlas life cycle: theme changes, resizes and promise settlements
AtlasRatios == {10, 15}
AtlasLineHeights == {10, 15}

Init == InitOver(Fonts, AtlasRatios, AtlasLineHeights)

Next ==
    \/ \E cs \in ColorSets, sync \in BOOLEAN :
          reqCount < MaxRequests /\ OnThemeChanged(cs, sync)
    \/ \E sz \in CanvasSizes, csc \in BOOLEAN, sync \in BOOLEAN :
          (csc => reqCount < MaxRequests) /\ Resize(sz[1], sz[2], csc, sync)
    \/ \E p \in pending : AcquireResolve(p)
    \/ \E p \in pending : AcquireReject(p)
    \/ Terminal(Fonts, AtlasRatios, AtlasLineHeights)

Spec == Init /\ [][Next]_vars

\* The cell geometry over every font, device pixel ratio and line height
InitGeom == InitOver(Fonts, PixelRatios, LineHeights)

NextGeom ==
    \/ \E sz \in CanvasSizes, csc \in BOOLEAN, sync \in BOOLEAN :
          (csc => reqCount < MaxGeomRequests) /\ Resize(sz[1], sz[2], csc, sync)
    \/ Terminal(Fonts, PixelRatios, LineHeights)

SpecGeom == InitGeom /\ [][NextGeom]_vars

\* Drawing: glyph draws in every atlas state of the layer
DrawFonts == { [size |-> 12, w |-> 72, h |-> 150] }
DrawRatios == {15}
DrawLineHeights == {10, 15}

InitDraw == InitOver(DrawFonts, DrawRatios, DrawLineHeights)

NextDraw ==
    \/ \E cs \in ColorSets, sync \in BOOLEAN :
          reqCount < MaxDrawRequests /\ OnThemeChanged(cs, sync)
    \/ \E sz \in CanvasSizes, csc \in BOOLEAN, sync \in BOOLEAN :
          (csc => reqCount < MaxDrawRequests) /\ Resize(sz[1], sz[2], csc, sync)
    \/ \E p \in pending : AcquireResolve(p)
    \/ \E p \in pending : AcquireReject(p)
    \/ \E lh \in DrawLineHeights : SetLineHeight(lh)
    \/ \E code \in Codes, width \in Widths, c \in Cells, fg \in Fgs, bold \in BOOLEAN :
          DrawChar(code, width, c[1], c[2], fg, bold)
    \/ \E code \in Codes, width \in Widths, c \in Cells :
          FillCharTrueColor(code, width, c[1], c[2])

SpecDraw == InitDraw /\ [][NextDraw]_vars

----------------------------------------------------------------------------
(* Properties *)

Range(seq) == { seq[i] : i \in DOMAIN seq }

OpsOf(kinds) == { i \in DOMAIN ctxOps : ctxOps[i].op \in kinds }

geometry == <<scaledCharWidth, scaledCharHeight, scaledLineHeight, scaledLineDrawY>>

\* the pixel origin every glyph of cell (x, y) is to be placed at
CellOrigin(x, y) ==
    [x |-> x * scaledCharWidth, y |-> y * scaledLineHeight + scaledLineDrawY]

\* C1: when two refreshes were requested before either promise settled and both
\* completions have run, in either order, the active atlas is the one of the
\* second request (no later refresh having been requested).  Atlases are
\* compared by what they were built for, since acquisitions with equal arguments
\* may share one atlas.
C1_LaterRequestWins ==
    \A pr \in raced :
        (pr[2] = reqCount /\ pr[1] \in Range(resolved) /\ pr[2] \in Range(resolved))
            => [charAtlas EXCEPT !.id = 0] = AtlasOf(0, lastReq)

\* C2: a drawChar call that selects the atlas path while the layer holds no
\* atlas draws the character through the direct-draw path and issues no blit
\* from the absent atlas.
C2_AbsentAtlasFallsBack ==
    ( /\ lastCall.op = "drawChar"
      /\ lastCall.code < 256
      /\ (lastCall.fg \in 0..15 \/ lastCall.fg >= 256)
      /\ charAtlas = NoAtlas )
        => /\ OpsOf({"fillText"}) # {}
           /\ OpsOf({"drawImage"}) = {}
           /\ ~lastCall.thrown

\* C3 as stated: a step that leaves a new acquisition pending does not change
\* the active atlas.
C3_PendingKeepsAtlas ==
    [][ (pending' \ pending) # {} => charAtlas' = charAtlas ]_vars

\* C3 as amended: a refresh whose acquisition is asynchronous leaves the layer
\* with no atlas, and the atlas reference then changes only when a completion
\* callback runs or another refresh is requested.
C3_RequestDropsAtlas ==
    [][ /\ (pending' \ pending) # {} => charAtlas' = NoAtlas
        /\ (reqCount' = reqCount /\ resolved' = resolved) => charAtlas' = charAtlas
      ]_vars

\* an atlas was active, and a theme change has just left request reqCount
\* pending and the layer without atlas
C3_Witness ==
    /\ lastCall.op = "onThemeChanged"
    /\ reqCount >= 2
    /\ \E p \in pending : p.id = reqCount
    /\ (reqCount - 1) \in Range(resolved)
    /\ charAtlas = NoAtlas

\* C4: onThemeChanged(terminal, colorSet) calls acquireCharAtlas with colorSet.
C4_ThemeColorSetRequested ==
    lastCall.op = "onThemeChanged" => lastReq.colors = lastCall.colorSet

\* C5: drawChar computes the color slot fg + 2 for fg < 256, else 1 when bold,
\* else 0, and takes the atlas path (a blit from the slot's row of the atlas)
\* exactly when code < 256 and (fg < 16 with a slot among the 16 basic ones, or
\* fg >= 256); every other combination draws the text directly.
C5_ColorSlotAndPath ==
    lastCall.op = "drawChar" =>
        LET fg == lastCall.fg
            slot == IF fg < 256 THEN fg + 2 ELSE IF lastCall.bold THEN 1 ELSE 0
            eligible == lastCall.code < 256 /\ ((fg < 16 /\ slot \in 2..17) \/ fg >= 256)
            blits == OpsOf({"drawImage"})
            texts == OpsOf({"fillText"})
        IN  /\ lastCall.colorIndex = slot
            /\ (lastCall.path = "atlas") <=> eligible
            /\ eligible =>
                 /\ texts = {}
                 /\ Cardinality(blits) = 1
                 /\ \A i \in blits :
                      /\ ctxOps[i].sx = lastCall.code * (scaledCharWidth + CHAR_ATLAS_CELL_SPACING)
                      /\ ctxOps[i].sy = slot * (scaledCharHeight + CHAR_ATLAS_CELL_SPACING)
            /\ ~eligible => (blits = {} /\ Cardinality(texts) = 1)

\* 'A' in the bold default color: atlas path, slot 1
C5_Witness ==
    /\ lastCall.op = "drawChar"
    /\ lastCall.code = 65 /\ lastCall.fg = 300 /\ lastCall.bold
    /\ lastCall.path = "atlas" /\ lastCall.colorIndex = 1
    /\ OpsOf({"drawImage"}) # {}

\* C6: a drawChar call with width 2 at (x, y) clears exactly the cell (x+1, y),
\* and does so before the glyph is drawn, on both paths; with width 1 it
\* clears nothing.
C6_WideClearFirst ==
    lastCall.op = "drawChar" =>
        LET clears == OpsOf({"clearRect"})
            glyphs == OpsOf({"drawImage", "fillText"})
        IN  IF lastCall.width = 2
            THEN /\ clears = {1}
                 /\ ctxOps[1] = [op |-> "clearRect",
                                 x |-> (lastCall.x + 1) * scaledCharWidth,
                                 y |-> lastCall.y * scaledLineHeight,
                                 w |-> scaledCharWidth, h |-> scaledLineHeight]
                 /\ glyphs # {}
                 /\ \A g \in glyphs : g > 1
            ELSE clears = {}

\* a wide character blitted from a present atlas
C6_Witness ==
    /\ lastCall.op = "drawChar"
    /\ lastCall.width = 2
    /\ lastCall.path = "atlas"
    /\ charAtlas # NoAtlas
    /\ Len(ctxOps) = 2

\* C7: after every resize, scaledCharWidth = ceil(w * r), scaledCharHeight =
\* ceil(h * r) and scaledLineHeight >= scaledCharHeight (w, h, r in tenths:
\* n = ceil(q / 100) iff 100 * (n - 1) < q <= 100 * n).
C7_ScaledGeometry ==
    lastCall.op = "resize" =>
        /\ 100 * (scaledCharWidth - 1) < termFont.w * devicePixelRatio
        /\ termFont.w * devicePixelRatio <= 100 * scaledCharWidth
        /\ 100 * (scaledCharHeight - 1) < termFont.h * devicePixelRatio
        /\ termFont.h * devicePixelRatio <= 100 * scaledCharHeight
        /\ scaledLineHeight >= scaledCharHeight

\* a resize at r = 1.1 with line height 1.2: the products are not integers
C7_Witness ==
    /\ lastCall.op = "resize"
    /\ devicePixelRatio = 11
    /\ lineHeight = 12
    /\ scaledCharWidth = 8
    /\ scaledLineHeight > scaledCharHeight

\* C8: a resize that repeats the previous call's arguments, the terminal
\* metrics being unchanged, leaves the cell geometry as it is; and a resize
\* with charSizeChanged = false requests no atlas and leaves the active atlas
\* and the pending acquisitions alone.
C8_ResizeIdempotent ==
    [][ lastCall'.op = "resize" =>
          /\ lastCall'.n = 2 => geometry' = geometry
          /\ ~lastCall'.charSizeChanged =>
                (reqCount' = reqCount /\ charAtlas' = charAtlas /\ pending' = pending)
      ]_vars

\* a second identical resize with charSizeChanged = false while an atlas is active
C8_Witness ==
    /\ lastCall.op = "resize"
    /\ lastCall.n = 2
    /\ ~lastCall.charSizeChanged
    /\ charAtlas # NoAtlas

\* C9: the atlas blit of drawChar, the text of _drawUncachedChar and the text
\* of fillCharTrueColor are all placed at (x * scaledCharWidth,
\* y * scaledLineHeight + scaledLineDrawY), the origin of the clip rectangle.
C9_SameOrigin ==
    lastCall.op \in {"drawChar", "fillCharTrueColor"} =>
        LET o == CellOrigin(lastCall.x, lastCall.y)
        IN  /\ \A i \in OpsOf({"drawImage"}) : ctxOps[i].dx = o.x /\ ctxOps[i].dy = o.y
            /\ \A i \in OpsOf({"fillText", "rect"}) : ctxOps[i].x = o.x /\ ctxOps[i].y = o.y

\* C10: an atlas the layer holds was requested with the layer's current
\* scaledCharWidth and scaledCharHeight.
C10_AtlasMatchesCellSize ==
    charAtlas # NoAtlas =>
        (charAtlas.w = scaledCharWidth /\ charAtlas.h = scaledCharHeight)

====
